---- MODULE Spec2Model ----
(***************************************************************************)
(* Model of generate_env.py: the random-string generator, the token        *)
(* signer, the value-set builder, the template substitution and the        *)
(* driver.                                                                 *)
(*                                                                         *)
(* A Python str is a sequence of one-character strings, so that strip,     *)
(* startswith, readlines and join are computed character by character.     *)
(***************************************************************************)
EXTENDS Integers, Sequences, FiniteSets, TLC

\* ------------------------------------------------------------------ bounds
\* longest string generate_random_string is asked for, drawn char by char
MaxLen == 2
\* number of distinct outcomes the random source yields per (length, alphabet)
MaxDraw == 2
\* lines of a template handed to create_env_file
MaxLines == 2
\* latest reading of time.time()
MaxClock == 1

VARIABLES
    \* generate_random_string, run character by character
    length,           \* its argument `length`
    include_special,  \* its argument `include_special`
    alphabet,         \* its local `alphabet`
    result,           \* the characters the generator has yielded so far
    rs_pc,            \* "start", "loop", "returned"
    \* the driver and the functions it calls
    pc,               \* the statement about to run
    caller,           \* "main", or "direct" when create_env_file is called on its own
    fs,               \* the files that exist: path -> content
    clock,            \* the last reading of time.time()
    drawn,            \* what generate_random_string has returned so far in this run
    jwt_secret,       \* local of generate_env_values
    env_values,       \* the dict, as its items in iteration order
    calls,            \* the calls of generate_jwt_secret and generate_jwt so far, in order
    env_lines,        \* local of create_env_file
    new_lines,        \* local of create_env_file
    exc,              \* the exception in flight, kind "" when there is none
    console,          \* what print has written, line by line
    runs,             \* completed calls of create_env_file
    first_output      \* the content the first call of create_env_file wrote

rs_vars == <<length, include_special, alphabet, result, rs_pc>>

m_vars == <<pc, caller, fs, clock, drawn, jwt_secret, env_values, calls, env_lines,
            new_lines, exc, console, runs, first_output>>

\* ------------------------------------------------------ string primitives
ascii_letters == <<"a","b","c","d","e","f","g","h","i","j","k","l","m","n","o","p","q","r","s","t","u","v","w","x","y","z","A","B","C","D","E","F","G","H","I","J","K","L","M","N","O","P","Q","R","S","T","U","V","W","X","Y","Z">>
digits == <<"0","1","2","3","4","5","6","7","8","9">>
safe_special == <<"!","@","#","$","%","^","&","*","(",")","-","_","=","+","[","]","{","}","|",";",":",",",".","<",">","?">>

\* the characters str.strip() removes that occur in the modelled files
Whitespace == {" ", "\t", "\n", "\r"}

Chars(s) == {s[i] : i \in 1..Len(s)}

\* ------------------------------------------- generate_random_string (9-16)
\* mutant: the special set is added whatever the flag says
AlphabetAlwaysSpecial(special) == ascii_letters \o digits \o safe_special

Alphabet(special) ==
    IF special THEN ascii_letters \o digits \o safe_special
               ELSE ascii_letters \o digits

\* number of iterations of `for _ in range(length)`
RangeLen(n) == IF n > 0 THEN n ELSE 0

\* lines 11-15: the alphabet is built from the flag
grs_alphabet ==
    /\ rs_pc = "start"
    /\ alphabet' = Alphabet(include_special)
    /\ rs_pc' = "loop"
    /\ UNCHANGED <<length, include_special, result, m_vars>>

\* line 16, one iteration of the generator: secrets.choice(alphabet)
grs_choice ==
    /\ rs_pc = "loop"
    /\ Len(result) < RangeLen(length)
    /\ \E i \in 1..Len(alphabet) : result' = Append(result, alphabet[i])
    /\ UNCHANGED <<length, include_special, alphabet, rs_pc, m_vars>>

\* line 16, the generator is exhausted: ''.join(...) is returned
grs_return ==
    /\ rs_pc = "loop"
    /\ Len(result) = RangeLen(length)
    /\ rs_pc' = "returned"
    /\ UNCHANGED <<length, include_special, alphabet, result, m_vars>>

\* ------------------------------------------------------------ str methods
RECURSIVE lstrip(_)
lstrip(s) == IF s # <<>> /\ s[1] \in Whitespace THEN lstrip(Tail(s)) ELSE s

RECURSIVE rstrip(_)
rstrip(s) ==
    IF s # <<>> /\ s[Len(s)] \in Whitespace THEN rstrip(SubSeq(s, 1, Len(s) - 1)) ELSE s

\* str.strip(): leading and trailing whitespace removed
strip(s) == rstrip(lstrip(s))

\* mutant: the prefix test becomes a substring test (`f"{key}=" in line`)
Contains(s, p) ==
    \E i \in 0..(Len(s) - Len(p)) : SubSeq(s, i + 1, i + Len(p)) = p

\* str.startswith
startswith(s, p) == Len(s) >= Len(p) /\ SubSeq(s, 1, Len(p)) = p

\* index of the first "\n" of s, 0 when there is none
RECURSIVE FirstNewline(_, _)
FirstNewline(s, i) ==
    IF i > Len(s) THEN 0 ELSE IF s[i] = "\n" THEN i ELSE FirstNewline(s, i + 1)

\* file.readlines(): the lines of the content, each with its terminator
RECURSIVE readlines(_)
readlines(content) ==
    IF content = <<>> THEN <<>>
    ELSE LET n == FirstNewline(content, 1)
         IN  IF n = 0 THEN <<content>>
             ELSE <<SubSeq(content, 1, n)>> \o readlines(SubSeq(content, n + 1, Len(content)))

\* '\n'.join(lines)
RECURSIVE join(_)
join(lines) ==
    IF lines = <<>> THEN <<>>
    ELSE IF Len(lines) = 1 THEN lines[1]
    ELSE lines[1] \o <<"\n">> \o join(Tail(lines))

\* content.split('\n'): the lines of a written file, terminators removed
RECURSIVE split(_)
split(content) ==
    LET n == FirstNewline(content, 1)
    IN  IF n = 0 THEN <<content>>
        ELSE <<SubSeq(content, 1, n - 1)>> \o split(SubSeq(content, n + 1, Len(content)))

\* decimal digits of a natural number
RECURSIVE Dec(_)
Dec(n) == IF n < 10 THEN <<digits[n + 1]>> ELSE Dec(n \div 10) \o <<digits[(n % 10) + 1]>>

Min(a, b) == IF a < b THEN a ELSE b

\* ------------------------------------------------------------- exceptions
NoException == [kind |-> "", msg |-> ""]

\* mutant: no try/except around the body of main
HandlerNoTry(c) == "propagated"

\* where control goes when a statement raises: the except clause of main
\* (line 110), or out of the function when it was called on its own
Handler(c) == IF c = "main" THEN "main_except" ELSE "propagated"

Raise(kind, msg) ==
    /\ exc' = [kind |-> kind, msg |-> msg]
    /\ pc' = Handler(caller)

\* a line written by print: the format string and what is substituted in it
Line(text, arg) == [text |-> text, arg |-> arg]

\* ---------------------------------- generate_random_string, as one call
\* The outcome in which secrets.choice yields the d-th character of the
\* alphabet at every position: `length` characters of the alphabet.
random_string(n, special, d) == [i \in 1..RangeLen(n) |-> Alphabet(special)[d]]

\* The outcomes of one call. Outcomes of one (length, alphabet) are named in
\* the order they first appear in a run, so the k-th new outcome is
\* random_string(n, special, k); a call returns an outcome already seen or
\* the next new one, up to MaxDraw distinct outcomes.
Draws(n, special) ==
    1..Min(MaxDraw, 1 + Cardinality({v \in drawn : v.length = n /\ v.special = special}))

Drawn(n, special, d) == [length |-> n, special |-> special, value |-> random_string(n, special, d)]

\* ----------------------------------------------------- generate_jwt (22-31)
anon == <<"a","n","o","n">>
service_role == <<"s","e","r","v","i","c","e","_","r","o","l","e">>
supabase == <<"s","u","p","a","b","a","s","e">>

\* lines 25-30
Payload(role, current_time, exp_hours) ==
    [role |-> role, iss |-> supabase, iat |-> current_time,
     exp |-> current_time + (exp_hours * 3600)]

\* the JSON text of the claims
Json(payload) ==
    <<"{", "\"", "r","o","l","e", "\"", ":", "\"">> \o payload.role \o
    <<"\"", ",", "\"", "i","s","s", "\"", ":", "\"">> \o payload.iss \o
    <<"\"", ",", "\"", "i","a","t", "\"", ":">> \o Dec(payload.iat) \o
    <<",", "\"", "e","x","p", "\"", ":">> \o Dec(payload.exp) \o <<"}">>

JoseHeader == <<"{", "\"","a","l","g","\"", ":", "\"","H","S","2","5","6","\"", ",",
                "\"","t","y","p","\"", ":", "\"","J","W","T","\"", "}">>

\* base64url and HMAC-SHA256 are free constructors: the encoding of a text
\* is the text between markers, the MAC is the key and the message between
\* markers, so two tokens are equal only if header, claims and key are.
Base64Url(text) == <<"b64url(">> \o text \o <<")">>
HmacSha256(key, msg) == <<"hmac_sha256(">> \o key \o <<"|">> \o msg \o <<")">>

\* jwt.encode(payload, key, algorithm="HS256"): header.payload.signature
jwt_encode(payload, key) ==
    LET signing_input == Base64Url(JoseHeader) \o <<".">> \o Base64Url(Json(payload))
    IN  signing_input \o <<".">> \o Base64Url(HmacSha256(key, signing_input))

generate_jwt(secret, role, exp_hours, current_time) ==
    jwt_encode(Payload(role, current_time, exp_hours), secret)

\* ---------------------------------------------- generate_env_values (33-68)
N8N_ENCRYPTION_KEY == <<"N","8","N","_","E","N","C","R","Y","P","T","I","O","N","_","K","E","Y">>
N8N_USER_MANAGEMENT_JWT_SECRET == <<"N","8","N","_","U","S","E","R","_","M","A","N","A","G","E","M","E","N","T","_","J","W","T","_","S","E","C","R","E","T">>
POSTGRES_PASSWORD == <<"P","O","S","T","G","R","E","S","_","P","A","S","S","W","O","R","D">>
JWT_SECRET == <<"J","W","T","_","S","E","C","R","E","T">>
ANON_KEY == <<"A","N","O","N","_","K","E","Y">>
SERVICE_ROLE_KEY == <<"S","E","R","V","I","C","E","_","R","O","L","E","_","K","E","Y">>
DASHBOARD_USERNAME == <<"D","A","S","H","B","O","A","R","D","_","U","S","E","R","N","A","M","E">>
DASHBOARD_PASSWORD == <<"D","A","S","H","B","O","A","R","D","_","P","A","S","S","W","O","R","D">>
POOLER_TENANT_ID == <<"P","O","O","L","E","R","_","T","E","N","A","N","T","_","I","D">>
VAULT_ENC_KEY == <<"V","A","U","L","T","_","E","N","C","_","K","E","Y">>
SECRET_KEY_BASE == <<"S","E","C","R","E","T","_","K","E","Y","_","B","A","S","E">>
LOGFLARE_LOGGER_BACKEND_API_KEY == <<"L","O","G","F","L","A","R","E","_","L","O","G","G","E","R","_","B","A","C","K","E","N","D","_","A","P","I","_","K","E","Y">>
LOGFLARE_API_KEY == <<"L","O","G","F","L","A","R","E","_","A","P","I","_","K","E","Y">>
SMTP_ADMIN_EMAIL == <<"S","M","T","P","_","A","D","M","I","N","_","E","M","A","I","L">>
SMTP_USER == <<"S","M","T","P","_","U","S","E","R">>
SMTP_PASS == <<"S","M","T","P","_","P","A","S","S">>
SMTP_SENDER_NAME == <<"S","M","T","P","_","S","E","N","D","E","R","_","N","A","M","E">>

admin == <<"a","d","m","i","n">>
admin_email == <<"a","d","m","i","n","@","y","o","u","r","d","o","m","a","i","n",".","c","o","m">>
sender_name == <<"S","u","p","a","b","a","s","e"," ","A","d","m","i","n">>

\* the four ways an entry of the dict literal gets its value
Rnd(key, n, special) ==
    [key |-> key, kind |-> "random", length |-> n, special |-> special, role |-> <<>>, literal |-> <<>>]
Lit(key, literal) ==
    [key |-> key, kind |-> "literal", length |-> 0, special |-> FALSE, role |-> <<>>, literal |-> literal]
Jwt(key, role) ==
    [key |-> key, kind |-> "jwt", length |-> 0, special |-> FALSE, role |-> role, literal |-> <<>>]
\* mutant: the entry draws a secret of its own (generate_jwt_secret(40))
SecRegenerated(key) == Rnd(key, 40, FALSE)
\* line 46: the entry is the local jwt_secret
Sec(key) ==
    [key |-> key, kind |-> "secret", length |-> 0, special |-> FALSE, role |-> <<>>, literal |-> <<>>]

\* the dict literal of lines 39-66, in evaluation order
EnvSpec == <<
    Rnd(N8N_ENCRYPTION_KEY, 40, FALSE),
    Rnd(N8N_USER_MANAGEMENT_JWT_SECRET, 40, FALSE),
    Rnd(POSTGRES_PASSWORD, 32, TRUE),
    Sec(JWT_SECRET),
    Jwt(ANON_KEY, anon),
    Jwt(SERVICE_ROLE_KEY, service_role),
    Lit(DASHBOARD_USERNAME, admin),
    Rnd(DASHBOARD_PASSWORD, 16, TRUE),
    Rnd(POOLER_TENANT_ID, 20, FALSE),
    Rnd(VAULT_ENC_KEY, 40, FALSE),
    Rnd(SECRET_KEY_BASE, 64, FALSE),
    Rnd(LOGFLARE_LOGGER_BACKEND_API_KEY, 40, FALSE),
    Rnd(LOGFLARE_API_KEY, 40, FALSE),
    Lit(SMTP_ADMIN_EMAIL, admin_email),
    Rnd(SMTP_USER, 12, FALSE),
    Rnd(SMTP_PASS, 16, TRUE),
    Lit(SMTP_SENDER_NAME, sender_name) >>

Item(key, value) == [key |-> key, value |-> value]

\* the entry of the dict literal evaluated next
NextEntry == EnvSpec[Len(env_values) + 1]

gev_frame == UNCHANGED <<caller, fs, env_lines, new_lines, console, runs, first_output, rs_vars>>

\* line 36: jwt_secret = generate_jwt_secret(40)
gev_secret ==
    /\ pc = "gev_secret"
    /\ \E d \in Draws(40, FALSE) :
          /\ jwt_secret' = random_string(40, FALSE, d)
          /\ drawn' = drawn \cup {Drawn(40, FALSE, d)}
          /\ calls' = Append(calls, [fn |-> "generate_jwt_secret",
                                     secret |-> random_string(40, FALSE, d), role |-> <<>>])
    /\ env_values' = <<>>
    /\ pc' = "gev_entry"
    /\ UNCHANGED <<clock, exc>>
    /\ gev_frame

\* an entry "KEY": generate_random_string(n, include_special=...)
gev_entry_random ==
    /\ pc = "gev_entry"
    /\ Len(env_values) < Len(EnvSpec)
    /\ NextEntry.kind = "random"
    /\ \E d \in Draws(NextEntry.length, NextEntry.special) :
          /\ env_values' = Append(env_values,
                Item(NextEntry.key, random_string(NextEntry.length, NextEntry.special, d)))
          /\ drawn' = drawn \cup {Drawn(NextEntry.length, NextEntry.special, d)}
    /\ UNCHANGED <<pc, clock, jwt_secret, calls, exc>>
    /\ gev_frame

\* line 46: "JWT_SECRET": jwt_secret
gev_entry_secret ==
    /\ pc = "gev_entry"
    /\ Len(env_values) < Len(EnvSpec)
    /\ NextEntry.kind = "secret"
    /\ env_values' = Append(env_values, Item(NextEntry.key, jwt_secret))
    /\ UNCHANGED <<pc, clock, drawn, jwt_secret, calls, exc>>
    /\ gev_frame

\* lines 47-48: "KEY": generate_jwt(jwt_secret, role=...); time.time() is read
\* at line 24 and never runs backwards
gev_entry_jwt ==
    /\ pc = "gev_entry"
    /\ Len(env_values) < Len(EnvSpec)
    /\ NextEntry.kind = "jwt"
    /\ \E t \in clock..MaxClock :
          /\ clock' = t
          /\ env_values' = Append(env_values,
                Item(NextEntry.key, generate_jwt(jwt_secret, NextEntry.role, 168, t)))
    /\ calls' = Append(calls, [fn |-> "generate_jwt", secret |-> jwt_secret,
                               role |-> NextEntry.role])
    /\ UNCHANGED <<pc, drawn, jwt_secret, exc>>
    /\ gev_frame

\* line 31: jwt.encode raises (the installed jwt module cannot sign)
gev_entry_jwt_raises ==
    /\ pc = "gev_entry"
    /\ Len(env_values) < Len(EnvSpec)
    /\ NextEntry.kind = "jwt"
    /\ calls' = Append(calls, [fn |-> "generate_jwt", secret |-> jwt_secret,
                               role |-> NextEntry.role])
    /\ Raise("Exception", "jwt.encode failed")
    /\ UNCHANGED <<clock, drawn, jwt_secret, env_values>>
    /\ gev_frame

\* lines 49, 62, 65: "KEY": "literal"
gev_entry_literal ==
    /\ pc = "gev_entry"
    /\ Len(env_values) < Len(EnvSpec)
    /\ NextEntry.kind = "literal"
    /\ env_values' = Append(env_values, Item(NextEntry.key, NextEntry.literal))
    /\ UNCHANGED <<pc, clock, drawn, jwt_secret, calls, exc>>
    /\ gev_frame

\* line 68: return env_values, back at line 100 of main
gev_return ==
    /\ pc = "gev_entry"
    /\ Len(env_values) = Len(EnvSpec)
    /\ pc' = "main_create"
    /\ UNCHANGED <<clock, drawn, jwt_secret, env_values, calls, exc>>
    /\ gev_frame

\* ------------------------------------------------- create_env_file (70-95)
EXAMPLE == ".env.example"
ENV == ".env"

\* the file `path` holding `content`, the other files as they are
WriteFile(files, path, content) ==
    [p \in DOMAIN files \cup {path} |-> IF p = path THEN content ELSE files[p]]

\* mutant: the line becomes the value alone
ReplacementValueOnly(key, value) == value

\* line 89: f"{key}={value}"
Replacement(key, value) == key \o <<"=">> \o value

\* lines 87-90: the first item, in iteration order, whose `key=` the line
\* starts with replaces the line; a line no key matches is kept
Substitute(line, items) ==
    LET hits == {j \in 1..Len(items) : startswith(line, items[j].key \o <<"=">>)}
    IN  IF hits = {} THEN line
        ELSE LET j == CHOOSE h \in hits : \A g \in hits : h <= g
             IN  Replacement(items[j].key, items[j].value)

\* mutant: line.lstrip() in place of line.strip()
process_line_lstrip(line, items) ==
    LET l == lstrip(line)
    IN  IF l = <<>> \/ l[1] = "#" THEN l ELSE Substitute(l, items)

\* lines 81-91, the body of the loop for one line of the template
process_line(line, items) ==
    LET l == strip(line)
    IN  IF l = <<>> \/ l[1] = "#" THEN l ELSE Substitute(l, items)

\* lines 79-91
process_lines(lines, items) == [i \in 1..Len(lines) |-> process_line(lines[i], items)]

\* mutant: a newline after the last line as well
written_newline_terminated(lines) == join(lines) \o <<"\n">>

\* line 95: what env_file.write is given
written(lines) == join(lines)

cef_frame == UNCHANGED <<caller, clock, drawn, jwt_secret, env_values, calls, console, first_output, rs_vars>>

\* mutant: .env is opened for writing before the template is looked for
cef_check_opens_first ==
    /\ pc = "cef_check"
    /\ IF EXAMPLE \notin DOMAIN fs
       THEN /\ Raise("FileNotFoundError", ".env.example file not found!")
            /\ fs' = WriteFile(fs, ENV, <<>>)
       ELSE /\ pc' = "cef_read"
            /\ UNCHANGED <<exc, fs>>
    /\ UNCHANGED <<env_lines, new_lines, runs>>
    /\ cef_frame

\* lines 72-73
cef_check ==
    /\ pc = "cef_check"
    /\ IF EXAMPLE \notin DOMAIN fs
       THEN Raise("FileNotFoundError", ".env.example file not found!")
       ELSE pc' = "cef_read" /\ UNCHANGED exc
    /\ UNCHANGED <<fs, env_lines, new_lines, runs>>
    /\ cef_frame

\* lines 75-76
cef_read ==
    /\ pc = "cef_read"
    /\ env_lines' = readlines(fs[EXAMPLE])
    /\ pc' = "cef_process"
    /\ UNCHANGED <<fs, new_lines, exc, runs>>
    /\ cef_frame

\* line 75: open or read fails (the template is not readable)
cef_read_raises ==
    /\ pc = "cef_read"
    /\ Raise("PermissionError", "[Errno 13] Permission denied: '.env.example'")
    /\ UNCHANGED <<fs, env_lines, new_lines, runs>>
    /\ cef_frame

\* lines 79-91
cef_process ==
    /\ pc = "cef_process"
    /\ new_lines' = process_lines(env_lines, env_values)
    /\ pc' = "cef_write"
    /\ UNCHANGED <<fs, env_lines, exc, runs>>
    /\ cef_frame

\* lines 94-95, and the return to line 103 of main or to the caller
cef_write ==
    /\ pc = "cef_write"
    /\ fs' = WriteFile(fs, ENV, written(new_lines))
    /\ runs' = runs + 1
    /\ pc' = IF caller = "main" THEN "main_success" ELSE "returned"
    /\ UNCHANGED <<env_lines, new_lines, exc>>
    /\ cef_frame

\* line 94: open(.env, 'w') fails and .env is as it was, or line 95: the
\* write fails after open has truncated the file
cef_write_raises ==
    /\ pc = "cef_write"
    /\ \/ /\ Raise("PermissionError", "[Errno 13] Permission denied: '.env'")
          /\ UNCHANGED fs
       \/ /\ Raise("OSError", "[Errno 28] No space left on device")
          /\ fs' = WriteFile(fs, ENV, <<>>)
    /\ UNCHANGED <<env_lines, new_lines, runs>>
    /\ cef_frame

\* create_env_file is called again with the same mapping, the content it
\* wrote to .env being the template
cef_again ==
    /\ pc = "returned"
    /\ runs = 1
    /\ first_output' = fs[ENV]
    /\ fs' = WriteFile(fs, EXAMPLE, fs[ENV])
    /\ pc' = "cef_check"
    /\ UNCHANGED <<caller, clock, drawn, jwt_secret, env_values, calls, env_lines,
                   new_lines, exc, console, runs, rs_vars>>

\* ------------------------------------------------------------ main (97-111)
RECURSIVE Dump(_)
\* lines 106-108: print(f"\n{key}:") writes an empty line and the key line
Dump(items) ==
    IF items = <<>> THEN <<>>
    ELSE <<Line("", <<>>), Line("{key}:", items[1].key), Line("{value}", items[1].value)>>
         \o Dump(Tail(items))

main_frame == UNCHANGED <<caller, fs, clock, drawn, jwt_secret, env_values, calls,
                          env_lines, new_lines, runs, first_output, rs_vars>>

\* lines 99-100
main_start ==
    /\ pc = "main_start"
    /\ console' = Append(console, Line("Generating environment variables...", <<>>))
    /\ pc' = "gev_secret"
    /\ UNCHANGED exc
    /\ main_frame

\* lines 102-103
main_create ==
    /\ pc = "main_create"
    /\ console' = Append(console, Line("Creating .env file...", <<>>))
    /\ pc' = "cef_check"
    /\ UNCHANGED exc
    /\ main_frame

\* lines 105-108
main_success ==
    /\ pc = "main_success"
    /\ console' = console
          \o <<Line("", <<>>),
               Line("Success! Your .env file has been created with the following values:", <<>>)>>
          \o Dump(env_values)
    /\ pc' = "done"
    /\ UNCHANGED exc
    /\ main_frame

\* lines 110-111
main_except ==
    /\ pc = "main_except"
    /\ console' = Append(console, Line("Error: {str(e)}", <<exc.msg>>))
    /\ pc' = "done"
    /\ UNCHANGED exc
    /\ main_frame

\* --------------------------------------------------------- initial states
vars == <<length, include_special, alphabet, result, rs_pc,
          pc, caller, fs, clock, drawn, jwt_secret, env_values, calls, env_lines,
          new_lines, exc, console, runs, first_output>>

\* generate_random_string is not running
RandIdle ==
    /\ length = 0
    /\ include_special = FALSE
    /\ alphabet = <<>>
    /\ result = <<>>
    /\ rs_pc = "idle"

\* neither main nor create_env_file is running
MainIdle ==
    /\ pc = "idle"
    /\ caller = "none"
    /\ fs = <<>>
    /\ clock = 0
    /\ drawn = {}
    /\ jwt_secret = <<>>
    /\ env_values = <<>>
    /\ calls = <<>>
    /\ env_lines = <<>>
    /\ new_lines = <<>>
    /\ exc = NoException
    /\ console = <<>>
    /\ runs = 0
    /\ first_output = <<>>

\* a .env left by an earlier run
OldEnv == <<"J","W","T","_","S","E","C","R","E","T","=","p","r","e","v","i","o","u","s">>

\* contents of up to n lines of L, the last with or without its newline
Templates(L, n) ==
    UNION {{join(ls) \o nl : nl \in {<<>>, <<"\n">>}} :
              ls \in UNION {[1..k -> L] : k \in 0..n}}

\* the working directory: .env.example holding one of T or missing, .env
\* holding OldEnv or missing
FileSystems(T) ==
    {[p \in D |-> IF p = EXAMPLE THEN t ELSE OldEnv] : D \in SUBSET {EXAMPLE, ENV}, t \in T}

\* templates of the driver's runs
MainTemplates == {
    <<"#"," ","S","e","c","r","e","t","s","\n","J","W","T","_","S","E","C","R","E","T","=","y","o","u","r","-","s","u","p","e","r","-","s","e","c","r","e","t","\n","A","N","O","N","_","K","E","Y","=","\n","P","O","S","T","G","R","E","S","_","H","O","S","T","=","d","b","\n">>,
    <<"S","M","T","P","_","S","E","N","D","E","R","_","N","A","M","E","=","f","a","k","e","_","s","e","n","d","e","r","\n","\n"," "," ","D","A","S","H","B","O","A","R","D","_","U","S","E","R","N","A","M","E","=","s","u","p","a","b","a","s","e">> }

\* python generate_env.py
Init ==
    /\ RandIdle
    /\ pc = "main_start"
    /\ caller = "main"
    /\ fs \in FileSystems(MainTemplates)
    /\ clock \in 0..MaxClock
    /\ drawn = {}
    /\ jwt_secret = <<>>
    /\ env_values = <<>>
    /\ calls = <<>>
    /\ env_lines = <<>>
    /\ new_lines = <<>>
    /\ exc = NoException
    /\ console = <<>>
    /\ runs = 0
    /\ first_output = <<>>

Next ==
    \/ main_start
    \/ gev_secret
    \/ gev_entry_random
    \/ gev_entry_secret
    \/ gev_entry_jwt
    \/ gev_entry_jwt_raises
    \/ gev_entry_literal
    \/ gev_return
    \/ main_create
    \/ cef_check
    \/ cef_read
    \/ cef_read_raises
    \/ cef_process
    \/ cef_write
    \/ cef_write_raises
    \/ main_success
    \/ main_except

Spec == Init /\ [][Next]_vars

\* ---- create_env_file called on its own, with a small mapping or with the
\* ---- keys of generate_env_values in some iteration order
FOO == <<"F","O","O">>
BAR == <<"B","A","R">>
FOOBAR == <<"F","O","O","B","A","R">>
new1 == <<"n","e","w","1">>
new2 == <<"n","e","w","2">>
new3 == <<"n","e","w"," ","3">>

SmallItems == {Item(FOO, new1), Item(BAR, new2), Item(FOOBAR, new3)}

\* the mappings over SmallItems, in every iteration order
SmallMappings ==
    {m \in UNION {[1..k -> SmallItems] : k \in 0..Cardinality(SmallItems)} :
        \A i, j \in 1..Len(m) : i # j => m[i].key # m[j].key}

SmallLines == {
    <<"#"," ","c","o","m","m","e","n","t">>,
    <<"F","O","O","=","o","l","d">>,
    <<"B","A","R","=","o","l","d">>,
    <<"B","A","Z","=","u","n","c","h","a","n","g","e","d">>,
    <<>>,
    <<" "," ">>,
    <<" ","F","O","O","=","o","l","d"," ">>,
    <<"F","O","O","B","A","R","=","o","l","d">> }

\* the template of the documented example
ExampleTemplate == <<"#"," ","c","o","m","m","e","n","t","\n","F","O","O","=","o","l","d","\n","B","A","R","=","o","l","d","\n","B","A","Z","=","u","n","c","h","a","n","g","e","d">>

\* the keys of generate_env_values, each with a short value of its own
FixedItems == [i \in 1..Len(EnvSpec) |-> Item(EnvSpec[i].key, <<"v">> \o Dec(i))]

Reverse(s) == [i \in 1..Len(s) |-> s[Len(s) + 1 - i]]
Rotate(s, r) == [i \in 1..Len(s) |-> s[((i - 1 + r) % Len(s)) + 1]]

\* iteration orders of a mapping: as inserted, reversed, and every rotation;
\* of any two keys each comes first in one of them
Orders(items) == {items, Reverse(items)} \cup {Rotate(items, r) : r \in 1..Len(items)}

KeyLines == {
    <<"#"," ","k","e","y","s">>,
    <<"J","W","T","_","S","E","C","R","E","T","=","o","l","d">>,
    <<"N","8","N","_","U","S","E","R","_","M","A","N","A","G","E","M","E","N","T","_","J","W","T","_","S","E","C","R","E","T","=","o","l","d">>,
    <<"L","O","G","F","L","A","R","E","_","A","P","I","_","K","E","Y","=","J","W","T","_","S","E","C","R","E","T","=","k">>,
    <<"J","W","T","_","S","E","C","R","E","T","_","O","L","D","=","1">>,
    <<" ","S","M","T","P","_","U","S","E","R","=","u">> }

InitFile ==
    /\ RandIdle
    /\ pc = "cef_check"
    /\ caller = "direct"
    /\ \/ /\ env_values \in SmallMappings
          /\ fs \in FileSystems(Templates(SmallLines, MaxLines) \cup {ExampleTemplate})
       \/ /\ env_values \in Orders(FixedItems)
          /\ fs \in FileSystems(Templates(KeyLines, MaxLines))
    /\ clock = 0
    /\ drawn = {}
    /\ jwt_secret = <<>>
    /\ calls = <<>>
    /\ env_lines = <<>>
    /\ new_lines = <<>>
    /\ exc = NoException
    /\ console = <<>>
    /\ runs = 0
    /\ first_output = <<>>

NextFile ==
    \/ cef_check
    \/ cef_read
    \/ cef_read_raises
    \/ cef_process
    \/ cef_write
    \/ cef_write_raises
    \/ cef_again

SpecFile == InitFile /\ [][NextFile]_vars

\* ---- generate_random_string called on its own
InitRand ==
    /\ MainIdle
    /\ length \in -1..MaxLen
    /\ include_special \in BOOLEAN
    /\ alphabet = <<>>
    /\ result = <<>>
    /\ rs_pc = "start"

NextRand ==
    \/ grs_alphabet
    \/ grs_choice
    \/ grs_return

SpecRand == InitRand /\ [][NextRand]_vars

\* ================================================================= claims
\* the lines of the template as read, and each without its terminator
TemplateLines == readlines(fs[EXAMPLE])
RawLine(l) == IF l # <<>> /\ l[Len(l)] = "\n" THEN SubSeq(l, 1, Len(l) - 1) ELSE l
\* the lines of .env
OutputLines == split(fs[ENV])

\* the items of the mapping whose `key=` the text starts with
Matching(text, items) ==
    {j \in 1..Len(items) : Len(text) >= Len(items[j].key) + 1
                           /\ SubSeq(text, 1, Len(items[j].key) + 1) = items[j].key \o <<"=">>}

\* a call of create_env_file has returned
Returned == pc = "returned"

\* C1: after create_env_file returns, every template line that is neither
\* empty nor a comment and begins with `key=` for a key of the mapping is, at
\* the same position of .env, exactly `key=value` with that key's value;
\* nothing of the old value or of what followed it is left.
C1_ReplacedLineIsKeyValue ==
    Returned =>
        LET tl == TemplateLines
            out == OutputLines
        IN  \A i \in 1..Len(tl) :
                LET raw == RawLine(tl[i])
                IN  (raw # <<>> /\ raw[1] # "#")
                    => \A j \in Matching(raw, env_values) :
                          /\ i <= Len(out)
                          /\ out[i] = env_values[j].key \o <<"=">> \o env_values[j].value

\* the documented example: FOO and BAR replaced, comment and BAZ kept
C1_Witness ==
    /\ Returned
    /\ runs = 1
    /\ fs[EXAMPLE] = ExampleTemplate
    /\ env_values = <<Item(FOO, new1), Item(BAR, new2)>>
    /\ fs[ENV] = <<"#"," ","c","o","m","m","e","n","t","\n","F","O","O","=","n","e","w","1","\n","B","A","R","=","n","e","w","2","\n","B","A","Z","=","u","n","c","h","a","n","g","e","d">>

\* C2 as stated: every template line that begins with no `key=` of the
\* mapping (blank and comment lines among them) is, at the same position of
\* .env, exactly the template line.
C2_PassThroughVerbatim ==
    Returned =>
        LET tl == TemplateLines
            out == OutputLines
        IN  \A i \in 1..Len(tl) :
                LET raw == RawLine(tl[i])
                IN  Matching(raw, env_values) = {}
                    => (i <= Len(out) /\ out[i] = raw)

\* C2 amended: every template line that, once its surrounding whitespace is
\* trimmed, is empty, a comment or begins with no `key=` of the mapping is,
\* at the same position of .env, exactly the trimmed line.
C2_PassThroughTrimmed ==
    Returned =>
        LET tl == TemplateLines
            out == OutputLines
        IN  \A i \in 1..Len(tl) :
                LET l == strip(tl[i])
                IN  (l = <<>> \/ l[1] = "#" \/ Matching(l, env_values) = {})
                    => (i <= Len(out) /\ out[i] = l)

\* an unknown key kept with its value beside a whitespace-only line emptied
C2_Witness ==
    /\ Returned
    /\ \E i, k \in 1..Len(TemplateLines) :
          /\ RawLine(TemplateLines[i]) = <<"B","A","Z","=","u","n","c","h","a","n","g","e","d">>
          /\ OutputLines[i] = <<"B","A","Z","=","u","n","c","h","a","n","g","e","d">>
          /\ RawLine(TemplateLines[k]) = <<" "," ">>
          /\ OutputLines[k] = <<>>

\* C3: when .env.example does not exist, create_env_file raises
\* FileNotFoundError and no other error, in the step that looks for the
\* template, and no file is created or modified by it.
C3_MissingTemplateRaisesNotFound ==
    [][(pc = "cef_check" /\ EXAMPLE \notin DOMAIN fs)
         => (pc' = "propagated" /\ exc'.kind = "FileNotFoundError" /\ fs' = fs)]_vars

\* the call has failed with the not-found error and the old .env is intact
C3_Witness ==
    /\ pc = "propagated"
    /\ exc.kind = "FileNotFoundError"
    /\ EXAMPLE \notin DOMAIN fs
    /\ ENV \in DOMAIN fs
    /\ fs[ENV] = OldEnv

ErrorLines == {i \in 1..Len(console) : console[i].text = "Error: {str(e)}"}
DumpLines ==
    {i \in 1..Len(console) :
        console[i].text \in {"{key}:", "{value}",
            "Success! Your .env file has been created with the following values:"}}

\* C4: an error raised while main generates the values or substitutes the
\* template never leaves main: control goes to the except clause, the run
\* ends normally, exactly one line `Error: <message>` is printed, it is the
\* last line, and neither the success message nor the dump is printed.
C4_ErrorsCaughtInMain ==
    /\ pc # "propagated"
    /\ (exc.kind # "" => pc \in {"main_except", "done"})
    /\ (pc = "done" /\ exc.kind # "")
          => /\ Cardinality(ErrorLines) = 1
             /\ console[Len(console)] = Line("Error: {str(e)}", <<exc.msg>>)
             /\ DumpLines = {}

\* the template is missing: two status lines, then the error line
C4_Witness ==
    /\ pc = "done"
    /\ exc.kind = "FileNotFoundError"
    /\ Len(console) = 3
    /\ console[3] = Line("Error: {str(e)}", <<".env.example file not found!">>)

\* the value the mapping holds for a key
Value(items, key) == items[CHOOSE j \in 1..Len(items) : items[j].key = key].value

\* C5: generate_jwt_secret is called once, before any call of generate_jwt;
\* every token is signed with the string it returned, and the finished
\* mapping holds that string under JWT_SECRET, a token of role "anon" signed
\* with it under ANON_KEY and one of role "service_role" under
\* SERVICE_ROLE_KEY.
C5_OneSecretSignsBothTokens ==
    /\ calls # <<>> =>
          {i \in 1..Len(calls) : calls[i].fn = "generate_jwt_secret"} = {1}
    /\ \A i \in 1..Len(calls) :
          calls[i].fn = "generate_jwt" => calls[i].secret = calls[1].secret
    /\ Len(env_values) = Len(EnvSpec) =>
          /\ Value(env_values, JWT_SECRET) = calls[1].secret
          /\ [i \in 1..Len(calls) |-> calls[i].role] = <<<<>>, anon, service_role>>
          /\ \E t \in 0..MaxClock :
                Value(env_values, ANON_KEY)
                   = generate_jwt(Value(env_values, JWT_SECRET), anon, 168, t)
          /\ \E t \in 0..MaxClock :
                Value(env_values, SERVICE_ROLE_KEY)
                   = generate_jwt(Value(env_values, JWT_SECRET), service_role, 168, t)

\* a run that built the whole mapping and ended without error
C5_Witness ==
    /\ pc = "done"
    /\ exc.kind = ""
    /\ Len(env_values) = Len(EnvSpec)
    /\ Len(calls) = 3
    /\ Value(env_values, JWT_SECRET) = jwt_secret
    /\ Value(env_values, ANON_KEY) # Value(env_values, SERVICE_ROLE_KEY)

\* C6 as stated: with include_special set, neither the alphabet nor the
\* string drawn from it holds `=`, a newline or a quote character.
C6_NoEqualsNewlineQuote ==
    include_special =>
        (Chars(alphabet) \cup Chars(result)) \cap {"=", "\n", "\r", "\"", "'"} = {}

\* C7 as stated: a call with length <= 0 does not return a string.
C7_NonPositiveLengthRejected ==
    length <= 0 => rs_pc # "returned"

\* C8: for length > 0, the returned string has exactly `length` characters,
\* each a letter or a digit, or a character of the special set when and
\* only when include_special is set.
C8_LengthAndAlphabet ==
    (rs_pc = "returned" /\ length > 0) =>
        /\ Len(result) = length
        /\ \A i \in 1..Len(result) :
              \/ result[i] \in Chars(ascii_letters) \cup Chars(digits)
              \/ include_special /\ result[i] \in Chars(safe_special)

\* a two-character string with a special character, the flag being set
C8_Witness ==
    /\ rs_pc = "returned"
    /\ length = 2
    /\ include_special
    /\ result = <<"a", "!">>

FixedKeys == {EnvSpec[i].key : i \in 1..Len(EnvSpec)}

\* C9: with the keys of generate_env_values, iterated in any order, a line
\* read from the template begins with `key=` for at most one key, and what
\* create_env_file wrote is what it writes when the keys are iterated in the
\* order of the dict literal.
C9_AtMostOneKeyMatches ==
    (Len(env_values) = Len(EnvSpec) /\ pc \in {"cef_process", "returned"}) =>
        /\ {env_values[j].key : j \in 1..Len(env_values)} = FixedKeys
        /\ \A i \in 1..Len(env_lines) :
              LET l == strip(env_lines[i])
              IN  Cardinality({j \in 1..Len(env_values) :
                                  startswith(l, env_values[j].key \o <<"=">>)}) <= 1
        /\ Returned =>
              fs[ENV] = written(process_lines(env_lines, FixedItems))

\* the keys iterated in reverse order, the longer of two keys that end
\* alike replaced by its own value
C9_Witness ==
    /\ Returned
    /\ runs = 1
    /\ env_values = Reverse(FixedItems)
    /\ fs[EXAMPLE] = <<"N","8","N","_","U","S","E","R","_","M","A","N","A","G","E","M","E","N","T","_","J","W","T","_","S","E","C","R","E","T","=","o","l","d","\n","J","W","T","_","S","E","C","R","E","T","=","o","l","d">>
    /\ fs[ENV] = <<"N","8","N","_","U","S","E","R","_","M","A","N","A","G","E","M","E","N","T","_","J","W","T","_","S","E","C","R","E","T","=","v","2","\n","J","W","T","_","S","E","C","R","E","T","=","v","4">>

\* C10 as stated: the second call, given the first call's output as its
\* template, writes the content the first call wrote.
C10_SecondRunIdentical ==
    (Returned /\ runs = 2) => fs[ENV] = first_output

DropFinalNewline(s) ==
    IF s # <<>> /\ s[Len(s)] = "\n" THEN SubSeq(s, 1, Len(s) - 1) ELSE s

\* C10 amended: the second call writes the first call's output without its
\* final newline, if it ends with one, and the first call's output otherwise.
C10_SecondRunDropsFinalNewline ==
    (Returned /\ runs = 2) => fs[ENV] = DropFinalNewline(first_output)

\* an indented line replaced by the first call, the second call writing the
\* same two lines
C10_Witness ==
    /\ Returned
    /\ runs = 2
    /\ first_output = <<"F","O","O","=","n","e","w","1","\n","B","A","Z","=","u","n","c","h","a","n","g","e","d">>
    /\ fs[ENV] = first_output
    /\ Value(env_values, FOO) = new1
====
